---- MODULE Spec2Model ----
(***************************************************************************)
(* ISTAT fundamental-data pipeline: IstatMappingBuilder.build_mapping,     *)
(* IstatConstraintsBuilder.build_constraints_overview and                  *)
(* IstatSeriesExtractor (__init__ + process_series), run against a remote  *)
(* SDMX service and a document store of JSON files.                        *)
(*                                                                         *)
(* Representation.  Python str / None values are TLA+ strings, None being  *)
(* the atom None below.  Time periods are compared by Python's string      *)
(* order, so a time period is a sequence of character codes and the order  *)
(* is computed (LexLess).  A Python dict is a function (lookup only) or,   *)
(* where its insertion order is observable, a sequence of entries.         *)
(* An operation that can raise returns a record with a "raised" field.     *)
(***************************************************************************)
EXTENDS FiniteSets, Integers, Sequences, TLC

VARIABLES
    remote,        \* the SDMX service: the response of every endpoint
    mappings,      \* document store: mapping_<id>.json, by dataset id
    constraints,   \* document store: constraints_<id>.json, by dataset id
    seriesFiles,   \* document store: series_*.json, by file name
    extractor,     \* the IstatSeriesExtractor object of the running script
    clock,         \* datetime.now(), advanced by every script run
    hist           \* one entry per script run: what it did and what it left

vars == <<remote, mappings, constraints, seriesFiles, extractor, clock, hist>>

(***************************************************************************)
(* Bounds                                                                  *)
(***************************************************************************)
MaxSeries == 2     \* generic:Series elements in a data response
MaxObs == 2        \* generic:Obs elements in a series
MaxOps == 2        \* operations in one behaviour, in any order
MaxRuns == 2       \* runs of the whole pipeline in one behaviour
MaxDims == 2       \* structure:Dimension elements in a structure definition
MaxValues == 2     \* common:Value elements in a common:KeyValue
MaxKeyValues == 2  \* generic:Value elements in a SeriesKey

(***************************************************************************)
(* Values                                                                  *)
(***************************************************************************)
None == "__None__"

Truthy(s) == s # None /\ s # ""

SeqUpTo(S, n) == UNION {[1..k -> S] : k \in 0..n}

\* dict.get(key, default) on a dict modelled as a function
Get(dict, key, default) == IF key \in DOMAIN dict THEN dict[key] ELSE default

\* d[key] = value on a dict modelled as a function
Put(dict, key, value) ==
    [k \in DOMAIN dict \cup {key} |-> IF k = key THEN value ELSE dict[k]]

EmptyDict == <<>>

\* A remote call: requests.get on an endpoint of the service
Call(endpoint, ref) == [endpoint |-> endpoint, ref |-> ref]

\* A time period: the value attribute of generic:ObsDimension, None when the
\* attribute is absent, else its characters.
NoneTime == [none |-> TRUE, s |-> <<>>]
Time(s) == [none |-> FALSE, s |-> s]

\* Python's str.__lt__ on two strings given as character-code sequences
RECURSIVE LexLess(_, _)
LexLess(a, b) ==
    IF a = <<>> THEN b # <<>>
    ELSE IF b = <<>> THEN FALSE
    ELSE IF a[1] < b[1] THEN TRUE
    ELSE IF a[1] > b[1] THEN FALSE
    ELSE LexLess(Tail(a), Tail(b))

\* float(text): the texts float() accepts, with the number in tenths
FloatTable == [t \in {"10.5", "9.1"} |-> IF t = "10.5" THEN 105 ELSE 91]

\* try: observation["value"] = float(value) / except ValueError: = value
NumValue(n) == [num |-> TRUE, n |-> n, text |-> ""]
TextValue(t) == [num |-> FALSE, n |-> 0, text |-> t]
ParseValue(text) ==
    IF text \in DOMAIN FloatTable THEN NumValue(FloatTable[text]) ELSE TextValue(text)

(***************************************************************************)
(* IstatSeriesExtractor                                                    *)
(***************************************************************************)
NoDoc == [exists |-> FALSE]

\* Mutant: the Italian name is tried before the English one.
LabelOf_italianFirst(names, code) ==
    IF Truthy(Get(names, "it", None)) THEN names["it"]
    ELSE IF Truthy(Get(names, "en", None)) THEN names["en"]
    ELSE Get(names, "default", code)

\* names.get("en") or names.get("it") or names.get("default", code)
LabelOf(names, code) ==
    IF Truthy(Get(names, "en", None)) THEN names["en"]
    ELSE IF Truthy(Get(names, "it", None)) THEN names["it"]
    ELSE Get(names, "default", code)

\* The try-block of get_value_description: raised stands for the KeyError,
\* TypeError or AttributeError a malformed document produces.
Returned(v) == [raised |-> FALSE, val |-> v]
Raised == [raised |-> TRUE, val |-> None]

DescriptionLookup(doc, concept, code) ==
    IF ~doc.hasDimensions THEN Raised
    ELSE IF concept \notin DOMAIN doc.dimensions THEN Returned(code)
    ELSE LET dimension_info == doc.dimensions[concept] IN
         IF ~dimension_info.hasValues THEN Raised
         ELSE LET value_info == Get(dimension_info.values, code,
                                    [hasName |-> FALSE, nameIsMap |-> TRUE, name |-> EmptyDict])
                  names == IF value_info.hasName THEN value_info.name ELSE EmptyDict
              IN IF value_info.hasName /\ ~value_info.nameIsMap THEN Raised
                 ELSE Returned(LabelOf(names, code))

\* Mutant: the except clause re-raises instead of returning the code.
get_value_description_reraise(doc, concept, code) ==
    DescriptionLookup(doc, concept, code)

get_value_description(doc, concept, code) ==
    LET r == DescriptionLookup(doc, concept, code)
    IN IF r.raised THEN Returned(code) ELSE r


\* metadata[concept] = {...}: a dict keeps the position of a key it already
\* has and appends a new one.  metadata is the sequence of its entries.
RECURSIVE DictSet(_, _)
DictSet(meta, entry) ==
    IF meta = <<>> THEN <<entry>>
    ELSE IF Head(meta).concept = entry.concept THEN <<entry>> \o Tail(meta)
    ELSE <<Head(meta)>> \o DictSet(Tail(meta), entry)

\* The loop over generic:SeriesKey//generic:Value (a raise of
\* get_value_description leaves the loop).
RECURSIVE ExtractMetadata(_, _, _)
ExtractMetadata(doc, values, meta) ==
    IF values = <<>> THEN [raised |-> FALSE, metadata |-> meta]
    ELSE LET concept == Head(values).id
             code == Head(values).value
             description == get_value_description(doc, concept, code)
         IN IF description.raised THEN [raised |-> TRUE, metadata |-> meta]
            ELSE ExtractMetadata(doc, Tail(values),
                     DictSet(meta, [concept |-> concept, code |-> code,
                                    description |-> description.val]))

\* One generic:Obs element to the observation dict built for it.
\* hasDim: the ObsDimension[@id="TIME_PERIOD"] element is present (time is its
\* value attribute); hasObsValue: generic:ObsValue is present (value likewise).
ExtractObservation(obs) ==
    [has_time |-> obs.hasDim,
     time_period |-> IF obs.hasDim THEN obs.time ELSE NoneTime,
     has_value |-> obs.hasObsValue /\ Truthy(obs.value),
     value |-> IF obs.hasObsValue /\ Truthy(obs.value)
               THEN ParseValue(obs.value) ELSE TextValue("")]

\* if "time_period" in observation and "value" in observation
KeptObservation(observation) == observation.has_time /\ observation.has_value

RECURSIVE ExtractObservations(_)
ExtractObservations(obsElems) ==
    IF obsElems = <<>> THEN <<>>
    ELSE LET observation == ExtractObservation(Head(obsElems))
             rest == ExtractObservations(Tail(obsElems))
         IN IF KeptObservation(observation)
            THEN <<[time_period |-> observation.time_period,
                    value |-> observation.value]>> \o rest
            ELSE rest

\* list.sort(key=lambda x: x.get("time_period", "")): stable, ascending; it
\* raises TypeError when it compares None with anything, which it does as soon
\* as the list has two entries and one key is None.
RECURSIVE InsertByTime(_, _)
InsertByTime(sorted, x) ==
    IF sorted = <<>> THEN <<x>>
    ELSE IF LexLess(x.time_period.s, Head(sorted).time_period.s)
         THEN <<x>> \o sorted
         ELSE <<Head(sorted)>> \o InsertByTime(Tail(sorted), x)

RECURSIVE StableSort(_)
StableSort(list) ==
    IF list = <<>> THEN <<>>
    ELSE InsertByTime(StableSort(SubSeq(list, 1, Len(list) - 1)), list[Len(list)])

SortObservations(list) ==
    IF Len(list) >= 2 /\ \E i \in 1..Len(list) : list[i].time_period.none
    THEN [raised |-> TRUE, list |-> list]
    ELSE [raised |-> FALSE, list |-> StableSort(list)]

extract_series_key(dataset_id, doc, series_elem, now) ==
    LET info == doc.dataset_info
        md == IF series_elem.hasKey
              THEN ExtractMetadata(doc, series_elem.key, <<>>)
              ELSE [raised |-> FALSE, metadata |-> <<>>]
        sorted == SortObservations(ExtractObservations(series_elem.obs))
    IN [raised |-> md.raised \/ sorted.raised,
        series_data |->
            [dataset_info |-> [id |-> dataset_id,
                               names |-> info.names,
                               structure_reference |-> info.structure_reference,
                               generated_at |-> now],
             metadata |-> md.metadata,
             observations |-> sorted.list]]

\* str() of a value inside an f-string
Str(x) == IF x = None THEN "None" ELSE x

\* "_".join of f"{concept}-{info['code']}" over metadata.items(), as text
RECURSIVE FilenameParts(_)
FilenameParts(meta) ==
    IF meta = <<>> THEN ""
    ELSE "_" \o Str(Head(meta).concept) \o "-" \o Str(Head(meta).code)
         \o FilenameParts(Tail(meta))

\* Mutant: the file name carries the time of the run.
Filename_stamped(dataset_id, series_data) ==
    "series_dataset_" \o dataset_id \o FilenameParts(series_data.metadata)
        \o "_at" \o ToString(series_data.dataset_info.generated_at) \o ".json"

\* f"series_{'_'.join(filename_parts)}.json"
Filename(dataset_id, series_data) ==
    "series_dataset_" \o dataset_id \o FilenameParts(series_data.metadata) \o ".json"

\* The loop of process_series over the generic:Series elements.  results has
\* one entry per series: "saved", "empty" (no observations) or "error" (the
\* except clause of the loop body).
RECURSIVE ProcessLoop(_, _, _, _, _, _)
ProcessLoop(dataset_id, doc, series, now, files, results) ==
    IF series = <<>> THEN [files |-> files, results |-> results]
    ELSE LET r == extract_series_key(dataset_id, doc, Head(series), now)
             filename == Filename(dataset_id, r.series_data)
         IN IF r.raised
            THEN ProcessLoop(dataset_id, doc, Tail(series), now, files,
                             Append(results, [status |-> "error", filename |-> ""]))
            ELSE IF r.series_data.observations = <<>>
            THEN ProcessLoop(dataset_id, doc, Tail(series), now, files,
                             Append(results, [status |-> "empty", filename |-> ""]))
            ELSE ProcessLoop(dataset_id, doc, Tail(series), now,
                             Put(files, filename, r.series_data),
                             Append(results, [status |-> "saved", filename |-> filename]))

\* process_series: the result of the call and the files it leaves
process_series(dataset_id, doc, now, files) ==
    IF ~remote.data.ok
    THEN [raised |-> TRUE, error |-> "RequestException",
          calls |-> <<Call("data", dataset_id)>>, files |-> files, results |-> <<>>]
    ELSE LET loop == ProcessLoop(dataset_id, doc, remote.data.series, now, files, <<>>)
         IN [raised |-> FALSE, error |-> "", calls |-> <<Call("data", dataset_id)>>,
             files |-> loop.files, results |-> loop.results]


(***************************************************************************)
(* IstatMappingBuilder                                                     *)
(***************************************************************************)
\* names[lang] = name.text over a list of common:Name elements; default is the
\* language of an element without xml:lang
RECURSIVE NamesByLang(_, _, _)
NamesByLang(elems, default, acc) ==
    IF elems = <<>> THEN acc
    ELSE NamesByLang(Tail(elems), default,
             Put(acc, IF Head(elems).lang = None THEN default ELSE Head(elems).lang,
                 Head(elems).text))

\* Mutant: a data response without structure reference is read as one whose
\* reference has no attributes.
get_structure_from_data_lenient(dataset_id) ==
    IF ~remote.data.ok
    THEN [raised |-> TRUE, error |-> "RequestException", calls |-> <<Call("data", dataset_id)>>]
    ELSE [raised |-> FALSE, error |-> "", calls |-> <<Call("data", dataset_id)>>,
          structure_info |-> [agency_id |-> remote.data.ref.agencyID,
                              structure_id |-> remote.data.ref.id,
                              version |-> remote.data.ref.version]]

\* get_structure_from_data
get_structure_from_data(dataset_id) ==
    IF ~remote.data.ok
    THEN [raised |-> TRUE, error |-> "RequestException", calls |-> <<Call("data", dataset_id)>>]
    ELSE IF ~remote.data.hasStructure \/ ~remote.data.hasRef
    THEN [raised |-> TRUE, error |-> "ValueError", calls |-> <<Call("data", dataset_id)>>]
    ELSE [raised |-> FALSE, error |-> "", calls |-> <<Call("data", dataset_id)>>,
          structure_info |-> [agency_id |-> remote.data.ref.agencyID,
                              structure_id |-> remote.data.ref.id,
                              version |-> remote.data.ref.version]]

\* codelist_refs[dim_id] = CodelistRef(...): a dict as the sequence of its entries
RECURSIVE SetRef(_, _)
SetRef(refs, entry) ==
    IF refs = <<>> THEN <<entry>>
    ELSE IF Head(refs).dim_id = entry.dim_id THEN <<entry>> \o Tail(refs)
    ELSE <<Head(refs)>> \o SetRef(Tail(refs), entry)

\* Mutant: the reference is filed under the id of the codelist.
RefKey_codelist(dim) == dim.enum.id

\* codelist_refs[dim_id]: the key a dimension's reference is filed under
RefKey(dim) == dim.id

\* The loop of get_dimension_codelist_refs over structure:Dimension
RECURSIVE CodelistRefs(_, _, _)
CodelistRefs(dims, structure_info, refs) ==
    IF dims = <<>> THEN refs
    ELSE LET dim == Head(dims) IN
         IF ~Truthy(dim.id) THEN CodelistRefs(Tail(dims), structure_info, refs)
         ELSE IF dim.hasEnum
         THEN CodelistRefs(Tail(dims), structure_info,
                  SetRef(refs, [dim_id |-> RefKey(dim),
                                agency_id |-> IF dim.enum.agencyID = None
                                              THEN structure_info.agency_id
                                              ELSE dim.enum.agencyID,
                                id |-> dim.enum.id,
                                version |-> IF dim.enum.version = None
                                            THEN "1.0" ELSE dim.enum.version]))
         ELSE CodelistRefs(Tail(dims), structure_info, refs)

\* The loop of get_codelist_values over structure:Code
RECURSIVE CodeValues(_, _)
CodeValues(codes, values) ==
    IF codes = <<>> THEN values
    ELSE LET code == Head(codes) IN
         IF ~Truthy(code.id) THEN CodeValues(Tail(codes), values)
         ELSE CodeValues(Tail(codes),
                  Put(values, code.id,
                      [hasName |-> TRUE,
                       name |-> NamesByLang(code.names, "default", EmptyDict),
                       hasDescription |-> TRUE,
                       description |-> NamesByLang(code.descriptions, "default", EmptyDict)]))

CodelistFetched(id) == id \in DOMAIN remote.codelist /\ remote.codelist[id].ok

\* get_codelist_values, after a successful fetch
get_codelist_values(codelist_ref) ==
    LET root == remote.codelist[codelist_ref.id]
    IN [codelist_info |-> [name |-> NamesByLang(root.names, "default", EmptyDict),
                           description |-> EmptyDict],
        values |-> CodeValues(root.codes, EmptyDict)]

\* Mutant: a codelist that cannot be fetched is logged and skipped.
RECURSIVE MappingDimensions_skipFailed(_, _, _)
MappingDimensions_skipFailed(refs, dimensions, calls) ==
    IF refs = <<>> THEN [raised |-> FALSE, dimensions |-> dimensions, calls |-> calls]
    ELSE LET codelist_ref == Head(refs)
             called == Append(calls, Call("codelist", Str(codelist_ref.id)))
         IN IF ~CodelistFetched(codelist_ref.id)
            THEN MappingDimensions_skipFailed(Tail(refs), dimensions, called)
            ELSE MappingDimensions_skipFailed(Tail(refs),
                     Put(dimensions, codelist_ref.dim_id,
                         [codelist |-> [id |-> codelist_ref.id,
                                        agency_id |-> codelist_ref.agency_id,
                                        version |-> codelist_ref.version,
                                        name |-> get_codelist_values(codelist_ref).codelist_info.name,
                                        description |-> EmptyDict],
                          values |-> get_codelist_values(codelist_ref).values]),
                     called)

\* The loop of build_mapping over codelist_refs.items(); a failed fetch raises
\* out of it.
RECURSIVE MappingDimensions(_, _, _)
MappingDimensions(refs, dimensions, calls) ==
    IF refs = <<>> THEN [raised |-> FALSE, dimensions |-> dimensions, calls |-> calls]
    ELSE LET codelist_ref == Head(refs)
             called == Append(calls, Call("codelist", Str(codelist_ref.id)))
         IN IF ~CodelistFetched(codelist_ref.id)
            THEN [raised |-> TRUE, dimensions |-> dimensions, calls |-> called]
            ELSE LET codelist_data == get_codelist_values(codelist_ref)
                 IN MappingDimensions(Tail(refs),
                        Put(dimensions, codelist_ref.dim_id,
                            [codelist |-> [id |-> codelist_ref.id,
                                           agency_id |-> codelist_ref.agency_id,
                                           version |-> codelist_ref.version,
                                           name |-> codelist_data.codelist_info.name,
                                           description |-> codelist_data.codelist_info.description],
                             values |-> codelist_data.values]),
                        called)

\* build_mapping: the result of the call; mapping is the document it wrote
build_mapping(dataset_id, now) ==
    LET s == get_structure_from_data(dataset_id) IN
    IF s.raised
    THEN [raised |-> TRUE, error |-> s.error, calls |-> s.calls, mapping |-> NoDoc]
    ELSE LET calls2 == Append(s.calls, Call("datastructure", Str(s.structure_info.structure_id)))
         IN IF ~remote.datastructure.ok
            THEN [raised |-> TRUE, error |-> "RequestException", calls |-> calls2,
                  mapping |-> NoDoc]
            ELSE LET refs == CodelistRefs(remote.datastructure.dims, s.structure_info, <<>>)
                     d == MappingDimensions(refs, EmptyDict, calls2)
                 IN IF d.raised
                    THEN [raised |-> TRUE, error |-> "RequestException", calls |-> d.calls,
                          mapping |-> NoDoc]
                    ELSE [raised |-> FALSE, error |-> "", calls |-> d.calls,
                          mapping |-> [exists |-> TRUE,
                                       dataset_id |-> dataset_id,
                                       generated_at |-> now,
                                       structure |-> [agency_id |-> s.structure_info.agency_id,
                                                      id |-> s.structure_info.structure_id,
                                                      version |-> s.structure_info.version],
                                       dimensions |-> d.dimensions]]


(***************************************************************************)
(* IstatConstraintsBuilder                                                 *)
(***************************************************************************)
\* json.dump followed by json.load on a dict of names: a None key (a
\* common:Name without xml:lang read with attrib.get and no default) comes
\* back as the string "null"; string keys and the values come back unchanged.
JsonNames(names) ==
    [k \in {IF l = None THEN "null" ELSE l : l \in DOMAIN names} |->
        IF k = "null" /\ None \in DOMAIN names THEN names[None] ELSE names[k]]

NoStructureReference == [present |-> FALSE, agency_id |-> None, id |-> None, version |-> None]

\* Mutant: the id of the document is read from the dataflow response.
DataflowId_fromResponse(dataset_id) == remote.dataflow.id

\* "id": self.dataset_id
DataflowId(dataset_id) == dataset_id

\* get_dataflow_info, after a successful fetch
get_dataflow_info(dataset_id) ==
    LET root == remote.dataflow IN
    [id |-> DataflowId(dataset_id),
     names |-> IF root.hasDataflow THEN NamesByLang(root.names, None, EmptyDict)
               ELSE EmptyDict,
     structure_reference |->
        IF root.hasDataflow /\ root.hasRef
        THEN [present |-> TRUE, agency_id |-> root.ref.agencyID,
              id |-> root.ref.id, version |-> root.ref.version]
        ELSE NoStructureReference]

\* The inner loop of get_available_constraints over common:Value
RECURSIVE ValueTexts(_)
ValueTexts(values) ==
    IF values = <<>> THEN <<>>
    ELSE IF Truthy(Head(values)) THEN <<Head(values)>> \o ValueTexts(Tail(values))
    ELSE ValueTexts(Tail(values))

\* The loop of get_available_constraints over common:KeyValue
RECURSIVE KeyValues(_, _)
KeyValues(keyValues, acc) ==
    IF keyValues = <<>> THEN acc
    ELSE IF Truthy(Head(keyValues).id)
    THEN KeyValues(Tail(keyValues),
                   Put(acc, Head(keyValues).id, ValueTexts(Head(keyValues).values)))
    ELSE KeyValues(Tail(keyValues), acc)

\* Mutant: the KeyValue elements are read wherever they are in the response.
get_available_constraints_anywhere ==
    KeyValues(remote.availableconstraint.keyValues, EmptyDict)

\* get_available_constraints, after a successful fetch
get_available_constraints ==
    IF ~remote.availableconstraint.hasCubeRegion THEN EmptyDict
    ELSE KeyValues(remote.availableconstraint.keyValues, EmptyDict)

DefaultName(value) == [k \in {"default"} |-> value]

\* Mutant: a code the mapping does not know gets an empty name map.
ConstraintName_noDefault(mapping, dim_id, value) ==
    IF /\ dim_id \in DOMAIN mapping.dimensions
       /\ value \in DOMAIN mapping.dimensions[dim_id].values
       /\ mapping.dimensions[dim_id].values[value].hasName
    THEN mapping.dimensions[dim_id].values[value].name
    ELSE EmptyDict

\* The name build_constraints_overview stores for one (dimension, code)
ConstraintName(mapping, dim_id, value) ==
    IF dim_id \notin DOMAIN mapping.dimensions THEN DefaultName(value)
    ELSE LET values == mapping.dimensions[dim_id].values IN
         IF value \notin DOMAIN values THEN DefaultName(value)
         ELSE LET value_info == values[value] IN
              IF ~(value_info.hasName \/ value_info.hasDescription) THEN DefaultName(value)
              ELSE IF value_info.hasName THEN value_info.name
              ELSE DefaultName(value)

\* The loop over one dimension's values
RECURSIVE ConstraintValues(_, _, _, _)
ConstraintValues(mapping, dim_id, values, acc) ==
    IF values = <<>> THEN acc
    ELSE ConstraintValues(mapping, dim_id, Tail(values),
             Put(acc, Head(values),
                 [hasName |-> TRUE, nameIsMap |-> TRUE,
                  name |-> ConstraintName(mapping, dim_id, Head(values))]))

\* overview["dimensions"], from available_constraints.items()
ConstraintDimensions(mapping, available) ==
    [dim_id \in DOMAIN available |->
        [id |-> dim_id, hasValues |-> TRUE,
         values |-> ConstraintValues(mapping, dim_id, available[dim_id], EmptyDict)]]

\* build_constraints_overview: the result of the call; overview is the document
\* as json.load reads it back
build_constraints_overview(dataset_id, now) ==
    LET calls1 == <<Call("dataflow", dataset_id)>>
        calls2 == Append(calls1, Call("availableconstraint", dataset_id))
    IN IF ~remote.dataflow.ok
       THEN [raised |-> TRUE, error |-> "RequestException", calls |-> calls1,
             overview |-> NoDoc]
       ELSE IF ~remote.availableconstraint.ok
       THEN [raised |-> TRUE, error |-> "RequestException", calls |-> calls2,
             overview |-> NoDoc]
       ELSE IF ~mappings[dataset_id].exists
       THEN [raised |-> TRUE, error |-> "FileNotFoundError", calls |-> calls2,
             overview |-> NoDoc]
       ELSE LET dataflow_info == get_dataflow_info(dataset_id)
                mapping == mappings[dataset_id]
            IN [raised |-> FALSE, error |-> "", calls |-> calls2,
                overview |->
                   [exists |-> TRUE,
                    dataset_info |-> [dataflow_info EXCEPT !.names = JsonNames(@)],
                    generated_at |-> now,
                    hasDimensions |-> TRUE,
                    dimensions |-> ConstraintDimensions(mapping, get_available_constraints)]]


(***************************************************************************)
(* IstatSeriesExtractor.__init__                                           *)
(***************************************************************************)
NoExtractor == [exists |-> FALSE]

\* Mutant: the loaded document is accepted whatever dataset it names.
validate_constraints_skip(dataset_id, doc) == TRUE

\* validate_constraints: TRUE when it returns, FALSE when it raises ValueError
validate_constraints(dataset_id, doc) == dataset_id = doc.dataset_info.id

\* __init__: find_constraints_file, load_constraints, validate_constraints
extractor_init(dataset_id) ==
    IF ~constraints[dataset_id].exists
    THEN [raised |-> TRUE, error |-> "FileNotFoundError", self |-> NoExtractor]
    ELSE IF ~validate_constraints(dataset_id, constraints[dataset_id])
    THEN [raised |-> TRUE, error |-> "ValueError", self |-> NoExtractor]
    ELSE [raised |-> FALSE, error |-> "",
          self |-> [exists |-> TRUE, dataset_id |-> dataset_id,
                    constraints |-> constraints[dataset_id]]]

(***************************************************************************)
(* The scripts' operations                                                 *)
(***************************************************************************)
\* One entry of hist: the call, how it ended, the remote calls it issued, the
\* outcome of each series (process_series) and the series files it left.
Entry(op, dataset_id, r, calls, results) ==
    [op |-> op, dataset_id |-> dataset_id, raised |-> r.raised, error |-> r.error,
     calls |-> calls, results |-> results, files |-> seriesFiles']

\* Mutant: the output file is opened for writing before the fetches, so a run
\* that raises leaves it without a document.
BuildMapping_openFirst(dataset_id) ==
    /\ LET r == build_mapping(dataset_id, clock) IN
       /\ mappings' = [mappings EXCEPT ![dataset_id] = r.mapping]
       /\ seriesFiles' = seriesFiles
       /\ hist' = Append(hist, Entry("build_mapping", dataset_id, r, r.calls, <<>>))
    /\ clock' = clock + 1
    /\ UNCHANGED <<remote, constraints, extractor>>

\* IstatMappingBuilder(dataset_id).build_mapping()
BuildMapping(dataset_id) ==
    /\ LET r == build_mapping(dataset_id, clock) IN
       /\ mappings' = IF r.raised THEN mappings
                      ELSE [mappings EXCEPT ![dataset_id] = r.mapping]
       /\ seriesFiles' = seriesFiles
       /\ hist' = Append(hist, Entry("build_mapping", dataset_id, r, r.calls, <<>>))
    /\ clock' = clock + 1
    /\ UNCHANGED <<remote, constraints, extractor>>

\* IstatConstraintsBuilder(dataset_id).build_constraints_overview()
BuildConstraints(dataset_id) ==
    /\ LET r == build_constraints_overview(dataset_id, clock) IN
       /\ constraints' = IF r.raised THEN constraints
                         ELSE [constraints EXCEPT ![dataset_id] = r.overview]
       /\ seriesFiles' = seriesFiles
       /\ hist' = Append(hist, Entry("build_constraints_overview", dataset_id, r, r.calls, <<>>))
    /\ clock' = clock + 1
    /\ UNCHANGED <<remote, mappings, extractor>>

\* extractor = IstatSeriesExtractor(dataset_id)
ExtractorInit(dataset_id) ==
    /\ LET r == extractor_init(dataset_id) IN
       /\ extractor' = r.self
       /\ seriesFiles' = seriesFiles
       /\ hist' = Append(hist, Entry("init", dataset_id, r, <<>>, <<>>))
    /\ clock' = clock + 1
    /\ UNCHANGED <<remote, mappings, constraints>>

\* Mutant: the record's dataset_info is the loaded document's own dataset_info
\* dict, so stamping the record stamps the document in memory.
ProcessSeries_aliasedInfo ==
    /\ extractor.exists
    /\ LET r == process_series(extractor.dataset_id, extractor.constraints, clock, seriesFiles) IN
       /\ seriesFiles' = r.files
       /\ hist' = Append(hist, Entry("process_series", extractor.dataset_id, r, r.calls, r.results))
       /\ extractor' =
             IF r.raised \/ r.results = <<>> THEN extractor
             ELSE [extractor EXCEPT !.constraints.dataset_info =
                      [id |-> @.id, names |-> @.names,
                       structure_reference |-> @.structure_reference,
                       generated_at |-> clock]]
    /\ clock' = clock + 1
    /\ UNCHANGED <<remote, mappings, constraints>>

\* extractor.process_series()
ProcessSeries ==
    /\ extractor.exists
    /\ LET r == process_series(extractor.dataset_id, extractor.constraints, clock, seriesFiles) IN
       /\ seriesFiles' = r.files
       /\ hist' = Append(hist, Entry("process_series", extractor.dataset_id, r, r.calls, r.results))
    /\ clock' = clock + 1
    /\ UNCHANGED <<remote, mappings, constraints, extractor>>


(***************************************************************************)
(* Inputs: the responses of the service and the documents found in the     *)
(* store when a script starts                                              *)
(***************************************************************************)
MainId == "111_111"
DatasetIds == {MainId, "22_315"}

Ref(agencyID, id, version) == [agencyID |-> agencyID, id |-> id, version |-> version]
Name(lang, text) == [lang |-> lang, text |-> text]

\* /data/<id>
FailedData == [ok |-> FALSE, hasStructure |-> FALSE, hasRef |-> FALSE,
               ref |-> Ref(None, None, None), series |-> <<>>]
Data(series) == [ok |-> TRUE, hasStructure |-> TRUE, hasRef |-> TRUE,
                 ref |-> Ref("IT1", "DCCV_DSD", "1.0"), series |-> series]

KeyValue(id, value) == [id |-> id, value |-> value]
Obs(time, value) == [hasDim |-> TRUE, time |-> time, hasObsValue |-> TRUE, value |-> value]
ObsWithoutDim(value) == [hasDim |-> FALSE, time |-> NoneTime, hasObsValue |-> TRUE, value |-> value]
ObsWithoutValue(time) == [hasDim |-> TRUE, time |-> time, hasObsValue |-> FALSE, value |-> None]
Series(key, obs) == [hasKey |-> TRUE, key |-> key, obs |-> obs]

\* "2018" and "2019" (character codes), and the series of the end-to-end example
Y2018 == Time(<<50, 48, 49, 56>>)
Y2019 == Time(<<50, 48, 49, 57>>)
ExampleSeries ==
    Series(<<KeyValue("FREQ", "A"), KeyValue("ITTER107", "IT")>>,
           <<Obs(Y2019, "10.5"), Obs(Y2018, "9.1")>>)

\* /datastructure/<agency>/<id>
Dim(id, enum) == [id |-> id, hasEnum |-> TRUE, enum |-> enum]
DimWithoutEnum(id) == [id |-> id, hasEnum |-> FALSE, enum |-> Ref(None, None, None)]
FailedStructure == [ok |-> FALSE, dims |-> <<>>]
ExampleStructure ==
    [ok |-> TRUE,
     dims |-> <<Dim("FREQ", Ref("IT1", "CL_FREQ", "1.0")),
                Dim("ITTER107", Ref(None, "CL_ITTER107", None))>>]

\* /codelist/<agency>/<id>
Code(id, names) == [id |-> id, names |-> names, descriptions |-> <<>>]
Codelist(codes) == [ok |-> TRUE, names |-> <<>>, codes |-> codes]
FailedCodelist == [ok |-> FALSE, names |-> <<>>, codes |-> <<>>]
FreqCodelist ==
    Codelist(<<Code("A", <<Name("en", "Annual"), Name("it", "Annuale")>>),
               Code("Q", <<Name("it", "Trimestrale")>>)>>)
TerritoryCodelist == Codelist(<<Code("IT", <<Name(None, "Italia")>>)>>)
ExampleCodelists ==
    [id \in {"CL_FREQ", "CL_ITTER107"} |->
        IF id = "CL_FREQ" THEN FreqCodelist ELSE TerritoryCodelist]

\* /availableconstraint/<id>
Region(keyValues) == [ok |-> TRUE, hasCubeRegion |-> TRUE, keyValues |-> keyValues]
RegionKey(id, values) == [id |-> id, values |-> values]
FailedRegion == [ok |-> FALSE, hasCubeRegion |-> FALSE, keyValues |-> <<>>]
NoRegion == [ok |-> TRUE, hasCubeRegion |-> FALSE, keyValues |-> <<>>]
ExampleRegion ==
    Region(<<RegionKey("FREQ", <<"A", "Q">>), RegionKey("ITTER107", <<"IT">>)>>)

\* /dataflow/IT1/<id>
FailedDataflow == [ok |-> FALSE, id |-> None, hasDataflow |-> FALSE, names |-> <<>>,
                   hasRef |-> FALSE, ref |-> Ref(None, None, None)]
Dataflow(id, names) == [ok |-> TRUE, id |-> id, hasDataflow |-> TRUE, names |-> names,
                        hasRef |-> TRUE, ref |-> Ref("IT1", "DCCV_DSD", "1.0")]
ExampleDataflow == Dataflow(MainId, <<Name("en", "Dataset"), Name(None, "Dataset")>>)

ExampleRemote ==
    [data |-> Data(<<ExampleSeries>>),
     datastructure |-> ExampleStructure,
     codelist |-> ExampleCodelists,
     availableconstraint |-> ExampleRegion,
     dataflow |-> ExampleDataflow]

\* A Constraints Document as build_constraints_overview writes it
ValueInfo(name) == [hasName |-> TRUE, nameIsMap |-> TRUE, name |-> name]
DimensionInfo(id, values) == [id |-> id, hasValues |-> TRUE, values |-> values]
ConstraintsDoc(id, dimensions) ==
    [exists |-> TRUE,
     dataset_info |-> [id |-> id, names |-> [l \in {"en"} |-> "Dataset"],
                       structure_reference |-> NoStructureReference],
     generated_at |-> 0,
     hasDimensions |-> TRUE,
     dimensions |-> dimensions]

ExampleNames(code) ==
    IF code = "A" THEN [l \in {"en", "it"} |-> IF l = "en" THEN "Annual" ELSE "Annuale"]
    ELSE IF code = "Q" THEN [l \in {"it"} |-> "Trimestrale"]
    ELSE DefaultName(code)

ExampleDimensions ==
    [d \in {"FREQ", "ITTER107"} |->
        IF d = "FREQ"
        THEN DimensionInfo(d, [c \in {"A", "Q"} |-> ValueInfo(ExampleNames(c))])
        ELSE DimensionInfo(d, [c \in {"IT"} |-> ValueInfo(ExampleNames(c))])]

NoDocs == [d \in DatasetIds |-> NoDoc]


(***************************************************************************)
(* SpecSeries: process_series on every data response of up to MaxSeries    *)
(* series, under the Constraints Document of the example                   *)
(***************************************************************************)
ObsElems ==
    {Obs(Y2019, "10.5"), Obs(Y2018, "9.1"), Obs(Y2018, "n.a."), Obs(NoneTime, "9.1"),
     ObsWithoutValue(Y2018), ObsWithoutDim("9.1")}

SeriesKeys ==
    {<<KeyValue("FREQ", "A"), KeyValue("ITTER107", "IT")>>,
     <<KeyValue("ITTER107", "IT"), KeyValue("FREQ", "A")>>,
     <<KeyValue("FREQ", "Q"), KeyValue("ITTER107", "IT")>>}

\* Every key with the observations of the example, and the key of the example
\* with every list of observations
SeriesElems ==
    {Series(key, ExampleSeries.obs) : key \in SeriesKeys}
    \cup {Series(ExampleSeries.key, obs) : obs \in SeqUpTo(ObsElems, MaxObs)}

InitSeries ==
    /\ \E data \in {FailedData} \cup {Data(s) : s \in SeqUpTo(SeriesElems, MaxSeries)} :
          remote = [ExampleRemote EXCEPT !.data = data]
    /\ mappings = NoDocs
    /\ constraints = [NoDocs EXCEPT ![MainId] = ConstraintsDoc(MainId, ExampleDimensions)]
    /\ seriesFiles = EmptyDict
    /\ extractor = NoExtractor
    /\ clock = 1
    /\ hist = <<>>

NextSeries ==
    \/ Len(hist) < MaxOps /\ ExtractorInit(MainId)
    \/ Len(hist) < MaxOps /\ ProcessSeries

SpecSeries == InitSeries /\ [][NextSeries]_vars

\* The runs of process_series that got the data response
ProcessRuns == {i \in 1..Len(hist) : hist[i].op = "process_series" /\ ~hist[i].raised}

\* A time period or a value that is absent, null or empty
MissingTime(time) == time.none \/ time.s = <<>>
Survives(obs) ==
    /\ obs.hasDim /\ ~MissingTime(obs.time)
    /\ obs.hasObsValue /\ Truthy(obs.value)

Ascending(observations) ==
    \A i, j \in 1..Len(observations) :
        i < j => ~LexLess(observations[j].time_period.s, observations[i].time_period.s)

\* C2: every persisted Series Record has its observations sorted ascending by
\* time_period, and none of them has a missing time_period or value.
C2_ObservationsSortedAndComplete ==
    \A f \in DOMAIN seriesFiles :
        LET observations == seriesFiles[f].observations IN
        /\ \A i \in 1..Len(observations) :
              /\ ~MissingTime(observations[i].time_period)
              /\ observations[i].value.num \/ Truthy(observations[i].value.text)
        /\ Ascending(observations)

\* C5: a series in which every observation lacks a time period or a value is
\* not persisted by process_series.
C5_EmptySeriesNotPersisted ==
    \A r \in ProcessRuns : \A i \in 1..Len(remote.data.series) :
        (\A k \in 1..Len(remote.data.series[i].obs) : ~Survives(remote.data.series[i].obs[k]))
            => hist[r].results[i].status # "saved"

\* C6: after a series that failed or had no observations, every later series is
\* still processed, is persisted when it has a surviving observation, and
\* process_series ends without raising.
C6_BadSeriesDoesNotHaltBatch ==
    \A r \in 1..Len(hist) :
        (hist[r].op = "process_series" /\ remote.data.ok) =>
            /\ ~hist[r].raised
            /\ Len(hist[r].results) = Len(remote.data.series)
            /\ \A i, j \in 1..Len(remote.data.series) :
                  (i < j /\ hist[r].results[i].status \in {"error", "empty"}
                         /\ \E k \in 1..Len(remote.data.series[j].obs) :
                               Survives(remote.data.series[j].obs[k]))
                      => hist[r].results[j].status = "saved"

KeyPairs(series) == {series.key[k] : k \in 1..Len(series.key)}

\* C7: two persisted series of one dataset with the same set of (dimension,
\* code) pairs have the same file name, whatever the order of the pairs.
C7_FilenameIgnoresKeyOrder ==
    \A r \in ProcessRuns : \A i, j \in 1..Len(remote.data.series) :
        (/\ hist[r].results[i].status = "saved"
         /\ hist[r].results[j].status = "saved"
         /\ KeyPairs(remote.data.series[i]) = KeyPairs(remote.data.series[j]))
            => hist[r].results[i].filename = hist[r].results[j].filename


(***************************************************************************)
(* SpecLabel: get_value_description, through process_series, on every      *)
(* shape of a Constraints Document entry                                   *)
(***************************************************************************)
\* The name maps of one code: each of "en", "it" and "default" absent, a
\* text, empty or null
Entries(lang, texts) == {EmptyDict} \cup {[l \in {lang} |-> t] : t \in texts}
NameMaps ==
    {[l \in DOMAIN en \cup DOMAIN it \cup DOMAIN default |->
         IF l \in DOMAIN en THEN en[l] ELSE IF l \in DOMAIN it THEN it[l] ELSE default[l]] :
     en \in Entries("en", {"Annual", "", None}),
     it \in Entries("it", {"Annuale", "", None}),
     default \in Entries("default", {"Yearly", ""})}

FreqDimension(info) == [d \in {"FREQ"} |-> info]
CodeA(value_info) == [c \in {"A"} |-> value_info]

LabelDocs ==
    {ConstraintsDoc(MainId, FreqDimension(DimensionInfo("FREQ", CodeA(ValueInfo(names))))) :
        names \in NameMaps}
    \cup {ConstraintsDoc(MainId, FreqDimension(DimensionInfo("FREQ", CodeA(value_info)))) :
            value_info \in {[hasName |-> FALSE, nameIsMap |-> FALSE, name |-> EmptyDict],
                            [hasName |-> TRUE, nameIsMap |-> FALSE, name |-> EmptyDict]}}
    \cup {ConstraintsDoc(MainId, FreqDimension([id |-> "FREQ", hasValues |-> FALSE,
                                                values |-> EmptyDict])),
          ConstraintsDoc(MainId, EmptyDict),
          [ConstraintsDoc(MainId, EmptyDict) EXCEPT !.hasDimensions = FALSE]}

LabelKeyValues == {KeyValue(id, value) : id \in {"FREQ", "ITTER107"}, value \in {"A", "Q"}}

InitLabel ==
    /\ \E key \in SeqUpTo(LabelKeyValues, MaxKeyValues) :
          remote = [ExampleRemote EXCEPT !.data = Data(<<Series(key, ExampleSeries.obs)>>)]
    /\ mappings = NoDocs
    /\ \E doc \in LabelDocs : constraints = [NoDocs EXCEPT ![MainId] = doc]
    /\ seriesFiles = EmptyDict
    /\ extractor = NoExtractor
    /\ clock = 1
    /\ hist = <<>>

SpecLabel == InitLabel /\ [][NextSeries]_vars

\* The name map the document holds for (concept, code), when it holds one
HasNameMap(doc, concept, code) ==
    /\ doc.hasDimensions
    /\ concept \in DOMAIN doc.dimensions
    /\ doc.dimensions[concept].hasValues
    /\ code \in DOMAIN doc.dimensions[concept].values
    /\ doc.dimensions[concept].values[code].hasName
    /\ doc.dimensions[concept].values[code].nameIsMap
NameMap(doc, concept, code) == doc.dimensions[concept].values[code].name


\* The metadata entries of the persisted Series Records
PersistedEntries ==
    UNION {{seriesFiles[f].metadata[k] : k \in 1..Len(seriesFiles[f].metadata)} :
              f \in DOMAIN seriesFiles}

\* C3 as stated: with "en" and "it" entries the "en" entry is the label whatever
\* it holds; with only "it" the "it" entry; with neither the raw code.
C3_FallbackByPresence ==
    \A m \in PersistedEntries :
        HasNameMap(extractor.constraints, m.concept, m.code) =>
            LET names == NameMap(extractor.constraints, m.concept, m.code) IN
            /\ ("en" \in DOMAIN names /\ "it" \in DOMAIN names) => m.description = names["en"]
            /\ ("en" \notin DOMAIN names /\ "it" \in DOMAIN names) => m.description = names["it"]
            /\ ("en" \notin DOMAIN names /\ "it" \notin DOMAIN names) => m.description = m.code

\* C3 (amended): the label is the "en" entry when that is a non-empty text;
\* otherwise the "it" entry when that is a non-empty text; otherwise the
\* "default" entry when the name map has one, and the raw code when it has none.
C3_LabelFallbackOrder ==
    \A m \in PersistedEntries :
        HasNameMap(extractor.constraints, m.concept, m.code) =>
            LET names == NameMap(extractor.constraints, m.concept, m.code)
                en == Get(names, "en", None)
                it == Get(names, "it", None)
            IN /\ Truthy(en) => m.description = en
               /\ (~Truthy(en) /\ Truthy(it)) => m.description = it
               /\ (~Truthy(en) /\ ~Truthy(it) /\ "default" \in DOMAIN names)
                     => m.description = names["default"]
               /\ (~Truthy(en) /\ ~Truthy(it) /\ "default" \notin DOMAIN names)
                     => m.description = m.code

\* A record was persisted whose label came from "en" although "it" was there too
C3_Witness ==
    \E m \in PersistedEntries :
        /\ HasNameMap(extractor.constraints, m.concept, m.code)
        /\ LET names == NameMap(extractor.constraints, m.concept, m.code) IN
           /\ "en" \in DOMAIN names /\ "it" \in DOMAIN names
           /\ Truthy(names["en"]) /\ Truthy(names["it"])
           /\ m.description = names["en"]

\* C4: label resolution never fails a series: every series is persisted with one
\* metadata entry per dimension of its key, and where the document has no name
\* map for the pair (unknown dimension, unknown code, no values map, name
\* missing or not a map) the description is the raw code.
C4_LabelMissNeverFails ==
    \A r \in ProcessRuns : \A i \in 1..Len(remote.data.series) :
        /\ hist[r].results[i].status = "saved"
        /\ LET series == remote.data.series[i]
               metadata == hist[r].files[hist[r].results[i].filename].metadata
           IN /\ {metadata[k].concept : k \in 1..Len(metadata)}
                    = {series.key[k].id : k \in 1..Len(series.key)}
              /\ \A k \in 1..Len(metadata) :
                    ~HasNameMap(extractor.constraints, metadata[k].concept, metadata[k].code)
                        => metadata[k].description = metadata[k].code

\* A series was persisted from a malformed document, labelled by its raw code
C4_Witness ==
    \E m \in PersistedEntries :
        /\ \/ ~extractor.constraints.hasDimensions
           \/ /\ m.concept \in DOMAIN extractor.constraints.dimensions
              /\ ~extractor.constraints.dimensions[m.concept].hasValues
        /\ m.description = m.code


(***************************************************************************)
(* Spec: the operations in any order, for any dataset id, on a store that  *)
(* may hold documents of earlier runs, with each endpoint up or down       *)
(***************************************************************************)
Remotes ==
    {ExampleRemote,
     [ExampleRemote EXCEPT !.data = FailedData],
     [ExampleRemote EXCEPT !.datastructure = FailedStructure],
     [ExampleRemote EXCEPT !.codelist["CL_ITTER107"] = FailedCodelist],
     [ExampleRemote EXCEPT !.availableconstraint = FailedRegion],
     [ExampleRemote EXCEPT !.availableconstraint = NoRegion],
     [ExampleRemote EXCEPT !.dataflow = FailedDataflow]}

\* A Mapping Document of an earlier run, when FREQ had the code A only
StaleMapping(dataset_id) ==
    [exists |-> TRUE, dataset_id |-> dataset_id, generated_at |-> 0,
     structure |-> [agency_id |-> "IT1", id |-> "DCCV_DSD", version |-> "1.0"],
     dimensions |->
        [d \in {"FREQ"} |->
            [codelist |-> [id |-> "CL_FREQ", agency_id |-> "IT1", version |-> "1.0",
                           name |-> EmptyDict, description |-> EmptyDict],
             values |-> [c \in {"A"} |->
                            [hasName |-> TRUE, name |-> [l \in {"en"} |-> "Yearly"],
                             hasDescription |-> TRUE, description |-> EmptyDict]]]]]

\* The constraints_<id>.json a script may find: none, or a document naming
\* any dataset
StoredConstraints ==
    {NoDoc} \cup {ConstraintsDoc(id, ExampleDimensions) : id \in DatasetIds}

\* A Series Record of an earlier run
StaleRecord ==
    [dataset_info |-> [id |-> MainId, names |-> EmptyDict,
                       structure_reference |-> NoStructureReference, generated_at |-> 0],
     metadata |-> <<[concept |-> "FREQ", code |-> "A", description |-> "Yearly"],
                    [concept |-> "ITTER107", code |-> "IT", description |-> "IT"]>>,
     observations |-> <<[time_period |-> Y2018, value |-> NumValue(91)]>>]
StoredSeries ==
    {EmptyDict, [f \in {Filename(MainId, StaleRecord)} |-> StaleRecord]}

Init ==
    /\ remote \in Remotes
    /\ mappings \in [DatasetIds -> {NoDoc}] \cup {[d \in DatasetIds |-> StaleMapping(d)]}
    /\ constraints \in [DatasetIds -> StoredConstraints]
    /\ seriesFiles \in StoredSeries
    /\ extractor = NoExtractor
    /\ clock = 1
    /\ hist = <<>>

Next ==
    \/ \E dataset_id \in DatasetIds : Len(hist) < MaxOps /\ BuildMapping(dataset_id)
    \/ \E dataset_id \in DatasetIds : Len(hist) < MaxOps /\ BuildConstraints(dataset_id)
    \/ \E dataset_id \in DatasetIds : Len(hist) < MaxOps /\ ExtractorInit(dataset_id)
    \/ Len(hist) < MaxOps /\ ProcessSeries

Spec == Init /\ [][Next]_vars

\* C1: constructing the extractor for a dataset id whose stored Constraints
\* Document names another dataset id raises ValueError, issues no remote call,
\* writes no Series Record and leaves no extractor to call process_series on.
C1_MismatchIsIntegrityError ==
    [][\A dataset_id \in DatasetIds :
          (/\ Len(hist') = Len(hist) + 1
           /\ hist'[Len(hist')].op = "init"
           /\ hist'[Len(hist')].dataset_id = dataset_id
           /\ constraints[dataset_id].exists
           /\ constraints[dataset_id].dataset_info.id # dataset_id)
              => /\ hist'[Len(hist')].raised
                 /\ hist'[Len(hist')].error = "ValueError"
                 /\ hist'[Len(hist')].calls = <<>>
                 /\ seriesFiles' = seriesFiles
                 /\ ~extractor'.exists]_vars

\* An extractor was constructed on a document naming another dataset
C1_Witness ==
    \E i \in 1..Len(hist) :
        /\ hist[i].op = "init"
        /\ hist[i].error = "ValueError"
        /\ constraints[hist[i].dataset_id].exists
        /\ constraints[hist[i].dataset_id].dataset_info.id # hist[i].dataset_id


(***************************************************************************)
(* SpecPipeline: the three scripts run in order for MainId, MaxRuns times, *)
(* against unchanged responses.  The extractor script ends at __init__     *)
(* when that raises.                                                       *)
(***************************************************************************)
PipelineSeries ==
    {ExampleSeries,
     Series(<<KeyValue("ITTER107", "IT"), KeyValue("FREQ", "A")>>, ExampleSeries.obs),
     Series(<<KeyValue("FREQ", "Q"), KeyValue("ITTER107", "IT")>>,
            <<Obs(NoneTime, "9.1"), Obs(Y2018, "n.a.")>>),
     Series(<<KeyValue("FREQ", "Q"), KeyValue("ITTER107", "IT")>>,
            <<ObsWithoutValue(Y2018)>>)}

PipelineRemotes ==
    Remotes \cup {[ExampleRemote EXCEPT !.data = Data(s)] :
                     s \in SeqUpTo(PipelineSeries, MaxSeries)}

InitPipeline ==
    /\ remote \in PipelineRemotes
    /\ mappings \in {NoDocs, [NoDocs EXCEPT ![MainId] = StaleMapping(MainId)]}
    /\ \E doc \in StoredConstraints : constraints = [NoDocs EXCEPT ![MainId] = doc]
    /\ seriesFiles \in StoredSeries
    /\ extractor = NoExtractor
    /\ clock = 1
    /\ hist = <<>>

LastOp == IF hist = <<>> THEN "none" ELSE hist[Len(hist)].op
LastRaised == hist # <<>> /\ hist[Len(hist)].raised

\* The entries of hist that end a run of the pipeline
RunEnds ==
    {i \in 1..Len(hist) : \/ hist[i].op = "process_series"
                          \/ hist[i].op = "init" /\ hist[i].raised}

NextPipeline ==
    \/ /\ LastOp \in {"none", "process_series"} \/ (LastOp = "init" /\ LastRaised)
       /\ Cardinality(RunEnds) < MaxRuns
       /\ BuildMapping(MainId)
    \/ LastOp = "build_mapping" /\ BuildConstraints(MainId)
    \/ LastOp = "build_constraints_overview" /\ ExtractorInit(MainId)
    \/ LastOp = "init" /\ ~LastRaised /\ ProcessSeries

SpecPipeline == InitPipeline /\ [][NextPipeline]_vars

\* A Series Record without its generated_at, and the store of them
Reproducible(files) ==
    [f \in DOMAIN files |-> [id |-> files[f].dataset_info.id,
                             metadata |-> files[f].metadata,
                             observations |-> files[f].observations]]

\* C8: a run of the whole pipeline that follows another one against unchanged
\* responses leaves the same file names, and in each file the same
\* dataset_info.id, metadata and observations, as the run before it.
C8_PipelineIdempotent ==
    \A i, j \in RunEnds :
        i < j => Reproducible(hist[j].files) = Reproducible(hist[i].files)

\* Two runs of the pipeline ended, each having persisted Series Records
C8_Witness ==
    \E i, j \in RunEnds :
        /\ i < j
        /\ \A r \in {i, j} :
              /\ hist[r].op = "process_series"
              /\ \E k \in 1..Len(hist[r].results) : hist[r].results[k].status = "saved"


(***************************************************************************)
(* SpecMapping: build_mapping on every structure definition of up to       *)
(* MaxDims dimensions                                                      *)
(***************************************************************************)
\* CL_GONE is a codelist the service does not have
DimElems ==
    {Dim("FREQ", Ref("IT1", "CL_FREQ", "1.0")),
     Dim("ITTER107", Ref(None, "CL_ITTER107", None)),
     Dim("FREQ", Ref("IT1", "CL_GONE", "1.0")),
     Dim(None, Ref("IT1", "CL_FREQ", "1.0")),
     DimWithoutEnum("FREQ"),
     DimWithoutEnum("ITTER107")}

InitMapping ==
    /\ \E data \in {Data(<<ExampleSeries>>), FailedData,
                    [Data(<<ExampleSeries>>) EXCEPT !.hasRef = FALSE]},
          datastructure \in {FailedStructure}
                            \cup {[ok |-> TRUE, dims |-> dims] : dims \in SeqUpTo(DimElems, MaxDims)},
          codelist \in {ExampleCodelists,
                        [ExampleCodelists EXCEPT !["CL_ITTER107"] = FailedCodelist]} :
          remote = [ExampleRemote EXCEPT !.data = data, !.datastructure = datastructure,
                                         !.codelist = codelist]
    /\ mappings \in {NoDocs, [NoDocs EXCEPT ![MainId] = StaleMapping(MainId)]}
    /\ constraints = NoDocs
    /\ seriesFiles = EmptyDict
    /\ extractor = NoExtractor
    /\ clock = 1
    /\ hist = <<>>

NextMapping == Len(hist) < MaxOps /\ BuildMapping(MainId)

SpecMapping == InitMapping /\ [][NextMapping]_vars

\* The dimension ids of the structure definition
StructureDims ==
    {remote.datastructure.dims[k].id : k \in 1..Len(remote.datastructure.dims)} \ {None, ""}

\* A dimension element of that id has an enumeration reference, and the call
\* fetched its codelist
Resolved(dim_id, calls) ==
    \E k \in 1..Len(remote.datastructure.dims) :
        LET dim == remote.datastructure.dims[k] IN
        /\ dim.id = dim_id
        /\ dim.hasEnum
        /\ CodelistFetched(dim.enum.id)
        /\ \E c \in 1..Len(calls) : calls[c] = Call("codelist", Str(dim.enum.id))

\* C9: after a successful build_mapping the Mapping Document has an entry for a
\* dimension of the structure definition exactly when that dimension has an
\* enumeration reference whose codelist was fetched, and no other entry.
C9_EntryIffResolvable ==
    \A i \in 1..Len(hist) :
        (hist[i].op = "build_mapping" /\ ~hist[i].raised) =>
            /\ mappings[hist[i].dataset_id].exists
            /\ \A dim_id \in StructureDims :
                  dim_id \in DOMAIN mappings[hist[i].dataset_id].dimensions
                      <=> Resolved(dim_id, hist[i].calls)
            /\ DOMAIN mappings[hist[i].dataset_id].dimensions \subseteq StructureDims

\* A build succeeded on a structure with a resolvable dimension, which got an
\* entry, and one without enumeration, which got none
C9_Witness ==
    \E i \in 1..Len(hist) :
        /\ hist[i].op = "build_mapping" /\ ~hist[i].raised
        /\ \E a, b \in StructureDims :
              /\ a \in DOMAIN mappings[hist[i].dataset_id].dimensions
              /\ b \notin DOMAIN mappings[hist[i].dataset_id].dimensions
              /\ ~Resolved(b, hist[i].calls)

(***************************************************************************)
(* SpecConstraints: build_constraints_overview on every constraint region  *)
(* of up to MaxDims dimensions with up to MaxValues values each            *)
(***************************************************************************)
RegionKeys ==
    {RegionKey(id, values) : id \in {"FREQ", "ITTER107", None},
                             values \in SeqUpTo({"A", "B", None}, MaxValues)}

\* A CubeRegion names a dimension once
Regions ==
    {Region(keyValues) : keyValues \in
        {kvs \in SeqUpTo(RegionKeys, MaxDims) :
            \A i, j \in 1..Len(kvs) : i # j => kvs[i].id # kvs[j].id}}

\* The mapping_<id>.json the script may find: none, the one of an earlier run
\* (FREQ with the code A), or that one with the entry of A edited
StoredMappings ==
    {NoDoc, StaleMapping(MainId)}
    \cup {[StaleMapping(MainId) EXCEPT !.dimensions["FREQ"].values["A"] = value_info] :
            value_info \in {[hasName |-> TRUE, name |-> EmptyDict,
                             hasDescription |-> FALSE, description |-> EmptyDict],
                            [hasName |-> FALSE, name |-> EmptyDict,
                             hasDescription |-> TRUE, description |-> EmptyDict],
                            [hasName |-> FALSE, name |-> EmptyDict,
                             hasDescription |-> FALSE, description |-> EmptyDict]}}

InitConstraints ==
    /\ \E region \in {FailedRegion, NoRegion} \cup Regions :
          remote = [ExampleRemote EXCEPT !.availableconstraint = region]
    /\ \E mapping \in StoredMappings : mappings = [NoDocs EXCEPT ![MainId] = mapping]
    /\ constraints = NoDocs
    /\ seriesFiles = EmptyDict
    /\ extractor = NoExtractor
    /\ clock = 1
    /\ hist = <<>>

NextConstraints == Len(hist) < MaxOps /\ BuildConstraints(MainId)

SpecConstraints == InitConstraints /\ [][NextConstraints]_vars

\* The (dimension, code) pairs listed in the constraint region
ListedPairs ==
    LET kvs == remote.availableconstraint.keyValues IN
    UNION {{<<kvs[k].id, kvs[k].values[v]>> :
               v \in {n \in 1..Len(kvs[k].values) : Truthy(kvs[k].values[n])}} :
           k \in {n \in 1..Len(kvs) : Truthy(kvs[n].id)}}

\* The (dimension, code) pairs of a Constraints Document
DocPairs(doc) ==
    UNION {{<<d, c>> : c \in DOMAIN doc.dimensions[d].values} : d \in DOMAIN doc.dimensions}

\* The Mapping Document has a name map for the pair
MappingHasName(mapping, d, c) ==
    /\ d \in DOMAIN mapping.dimensions
    /\ c \in DOMAIN mapping.dimensions[d].values
    /\ mapping.dimensions[d].values[c].hasName

Dataflows ==
    {ExampleDataflow,
     Dataflow("22_315", <<Name("en", "Other")>>),
     [ExampleDataflow EXCEPT !.hasRef = FALSE],
     [ExampleDataflow EXCEPT !.hasDataflow = FALSE, !.id = None],
     FailedDataflow}

\* A constraint response whose KeyValue elements are not in a CubeRegion
KeysOutsideRegion == [ExampleRegion EXCEPT !.hasCubeRegion = FALSE]

ConstraintResponses == {ExampleRegion, NoRegion, KeysOutsideRegion, FailedRegion}

InitResolver ==
    /\ \E dataflow \in Dataflows, region \in ConstraintResponses :
          remote = [ExampleRemote EXCEPT !.dataflow = dataflow,
                                         !.availableconstraint = region]
    /\ mappings \in {NoDocs, [d \in DatasetIds |-> StaleMapping(d)]}
    /\ constraints \in [DatasetIds -> StoredConstraints]
    /\ seriesFiles = EmptyDict
    /\ extractor = NoExtractor
    /\ clock = 1
    /\ hist = <<>>

NextResolver ==
    \/ \E dataset_id \in DatasetIds : Len(hist) < MaxOps /\ BuildConstraints(dataset_id)
    \/ \E dataset_id \in DatasetIds : Len(hist) < MaxOps /\ ExtractorInit(dataset_id)

SpecResolver == InitResolver /\ [][NextResolver]_vars

\* The runs of build_constraints_overview that wrote their document
ResolverRuns ==
    {i \in 1..Len(hist) : hist[i].op = "build_constraints_overview" /\ ~hist[i].raised}

\* C11: the Constraints Document written by build_constraints_overview has
\* dataset_info.id equal to the dataset id it was built for, whatever the
\* dataflow response holds, and constructing the extractor for that id afterwards
\* does not raise.
C11_WrittenIdIsDatasetId ==
    \A i \in ResolverRuns :
        /\ constraints[hist[i].dataset_id].exists
        /\ constraints[hist[i].dataset_id].dataset_info.id = hist[i].dataset_id
        /\ \A j \in 1..Len(hist) :
              (i < j /\ hist[j].op = "init" /\ hist[j].dataset_id = hist[i].dataset_id)
                  => ~hist[j].raised

\* A document was built from a dataflow response that names no dataset or
\* another one, and the extractor was then constructed on it
C11_Witness ==
    \E i \in ResolverRuns : \E j \in 1..Len(hist) :
        /\ remote.dataflow.id # hist[i].dataset_id
        /\ i < j /\ hist[j].op = "init" /\ hist[j].dataset_id = hist[i].dataset_id
        /\ extractor.exists
        /\ extractor.constraints.dataset_info.id = hist[i].dataset_id

\* C12: when the constraint response was fetched and has no CubeRegion, and the
\* Mapping Document exists, build_constraints_overview does not raise and
\* persists a Constraints Document with a dataset_info block and an empty
\* dimensions map.
C12_NoRegionYieldsEmptyDocument ==
    \A i \in 1..Len(hist) :
        LET dataset_id == hist[i].dataset_id IN
        (/\ hist[i].op = "build_constraints_overview"
         /\ \E c \in 1..Len(hist[i].calls) :
               hist[i].calls[c] = Call("availableconstraint", dataset_id)
         /\ remote.availableconstraint.ok
         /\ ~remote.availableconstraint.hasCubeRegion
         /\ mappings[dataset_id].exists)
            => /\ ~hist[i].raised
               /\ constraints[dataset_id].exists
               /\ constraints[dataset_id].generated_at > 0
               /\ constraints[dataset_id].dataset_info.id = dataset_id
               /\ constraints[dataset_id].hasDimensions
               /\ constraints[dataset_id].dimensions = EmptyDict

\* A build ran on a response that lists its KeyValue elements outside a
\* CubeRegion and wrote a document without dimensions
C12_Witness ==
    \E i \in ResolverRuns :
        /\ remote.availableconstraint = KeysOutsideRegion
        /\ constraints[hist[i].dataset_id].generated_at > 0
        /\ constraints[hist[i].dataset_id].dimensions = EmptyDict

(***************************************************************************)
(* SpecParse: build_mapping on responses that lack a structural element:   *)
(* the structure reference, a dimension's enumeration reference, a code's  *)
(* identifier                                                              *)
(***************************************************************************)
ParseData ==
    {Data(<<ExampleSeries>>),
     [Data(<<ExampleSeries>>) EXCEPT !.hasStructure = FALSE, !.hasRef = FALSE],
     [Data(<<ExampleSeries>>) EXCEPT !.hasRef = FALSE],
     FailedData}

ParseDims ==
    {Dim("FREQ", Ref("IT1", "CL_FREQ", "1.0")),
     Dim("ITTER107", Ref(None, "CL_ITTER107", None)),
     DimWithoutEnum("FREQ"),
     DimWithoutEnum("ITTER107")}

\* CL_FREQ with a structure:Code that has no id
CodelistsWithAnonymousCode ==
    [ExampleCodelists EXCEPT !["CL_FREQ"] =
        Codelist(<<Code("A", <<Name("en", "Annual")>>), Code(None, <<Name("en", "Total")>>)>>)]

InitParse ==
    /\ \E data \in ParseData,
          datastructure \in {FailedStructure}
                            \cup {[ok |-> TRUE, dims |-> dims] : dims \in SeqUpTo(ParseDims, MaxDims)},
          codelist \in {ExampleCodelists, CodelistsWithAnonymousCode,
                        [ExampleCodelists EXCEPT !["CL_ITTER107"] = FailedCodelist]} :
          remote = [ExampleRemote EXCEPT !.data = data, !.datastructure = datastructure,
                                         !.codelist = codelist]
    /\ mappings \in {NoDocs, [NoDocs EXCEPT ![MainId] = StaleMapping(MainId)]}
    /\ constraints = NoDocs
    /\ seriesFiles = EmptyDict
    /\ extractor = NoExtractor
    /\ clock = 1
    /\ hist = <<>>

SpecParse == InitParse /\ [][NextMapping]_vars

\* The runs of build_mapping that got the data response
MappingRuns == {i \in 1..Len(hist) : hist[i].op = "build_mapping" /\ remote.data.ok}

Issued(calls, call) == \E c \in 1..Len(calls) : calls[c] = call

\* The call left the stored Mapping Document as it found it: none, or the one
\* of the earlier run
NoMappingProduced(dataset_id) ==
    ~mappings[dataset_id].exists \/ mappings[dataset_id].generated_at = 0

\* The structure definition the call fetched has a Dimension element without
\* enumeration reference
LacksEnumeration(calls) ==
    /\ remote.datastructure.ok
    /\ \E c \in 1..Len(calls) : calls[c].endpoint = "datastructure"
    /\ \E k \in 1..Len(remote.datastructure.dims) :
          Truthy(remote.datastructure.dims[k].id) /\ ~remote.datastructure.dims[k].hasEnum

\* The code ids of a fetched codelist, and whether one of its codes has none
CodeIds(id) == {remote.codelist[id].codes[k].id : k \in 1..Len(remote.codelist[id].codes)}
LacksCodeId(calls) ==
    \E id \in DOMAIN remote.codelist :
        /\ Issued(calls, Call("codelist", id))
        /\ remote.codelist[id].ok
        /\ \E code_id \in CodeIds(id) : ~Truthy(code_id)

\* C13 as stated: build_mapping raises a structure parse error and produces no
\* Mapping Document whenever a fetched response lacks the structure reference, a
\* dimension's enumeration reference or a code's identifier.
C13_MissingElementFails ==
    \A i \in MappingRuns :
        (\/ ~remote.data.hasStructure \/ ~remote.data.hasRef
         \/ LacksEnumeration(hist[i].calls)
         \/ LacksCodeId(hist[i].calls))
            => /\ hist[i].raised
               /\ hist[i].error = "ValueError"
               /\ NoMappingProduced(hist[i].dataset_id)

\* C13 (amended): build_mapping raises ValueError, issues no further remote call
\* and produces no Mapping Document when the fetched data response lacks the
\* structure reference; with the reference there and every fetch succeeding it
\* writes the document, in which a dimension has an entry only when one of its
\* elements has an enumeration reference and the values of an entry are the codes
\* that have an id.
C13_OnlyStructureReferenceFails ==
    \A i \in MappingRuns :
        LET dataset_id == hist[i].dataset_id
            calls == hist[i].calls
        IN /\ (~remote.data.hasStructure \/ ~remote.data.hasRef)
                 => /\ hist[i].raised
                    /\ hist[i].error = "ValueError"
                    /\ calls = <<Call("data", dataset_id)>>
                    /\ NoMappingProduced(dataset_id)
           /\ (/\ remote.data.hasStructure /\ remote.data.hasRef
               /\ remote.datastructure.ok
               /\ \A k \in 1..Len(remote.datastructure.dims) :
                     LET dim == remote.datastructure.dims[k] IN
                     (Truthy(dim.id) /\ dim.hasEnum) => CodelistFetched(dim.enum.id))
                 => /\ ~hist[i].raised
                    /\ mappings[dataset_id].exists
                    /\ mappings[dataset_id].generated_at > 0
                    /\ \A dim_id \in StructureDims :
                          dim_id \in DOMAIN mappings[dataset_id].dimensions
                              <=> \E k \in 1..Len(remote.datastructure.dims) :
                                     /\ remote.datastructure.dims[k].id = dim_id
                                     /\ remote.datastructure.dims[k].hasEnum
                    /\ \A dim_id \in DOMAIN mappings[dataset_id].dimensions :
                          LET entry == mappings[dataset_id].dimensions[dim_id]
                          IN DOMAIN entry.values
                                = {code_id \in CodeIds(entry.codelist.id) : Truthy(code_id)}

\* A build stopped at a data response whose common:Structure has no Ref, and the
\* stored document of the earlier run is still there
C13_Witness ==
    \E i \in MappingRuns :
        /\ remote.data.hasStructure /\ ~remote.data.hasRef
        /\ hist[i].raised /\ hist[i].error = "ValueError"
        /\ mappings[hist[i].dataset_id] = StaleMapping(hist[i].dataset_id)

(***************************************************************************)
(* Failed remote calls (checked under Spec)                                *)
(***************************************************************************)
\* The response the service gives to a call is a success
FetchOk(call) ==
    IF call.endpoint = "data" THEN remote.data.ok
    ELSE IF call.endpoint = "datastructure" THEN remote.datastructure.ok
    ELSE IF call.endpoint = "codelist" THEN CodelistFetched(call.ref)
    ELSE IF call.endpoint = "availableconstraint" THEN remote.availableconstraint.ok
    ELSE remote.dataflow.ok

StageOps == {"build_mapping", "build_constraints_overview", "process_series"}

\* C14: in build_mapping, build_constraints_overview and process_series a failed
\* remote call is the last call the stage issues (no retry, no further fetch),
\* and the stage ends by raising the fetch error to its caller.
C14_FailedFetchIsTerminal ==
    \A i \in 1..Len(hist) :
        hist[i].op \in StageOps =>
            \A c \in 1..Len(hist[i].calls) :
                ~FetchOk(hist[i].calls[c])
                    => /\ c = Len(hist[i].calls)
                       /\ hist[i].raised
                       /\ hist[i].error = "RequestException"

\* A stage stopped at a failed fetch that followed a successful one
C14_Witness ==
    \E i \in 1..Len(hist) :
        /\ hist[i].op \in StageOps
        /\ Len(hist[i].calls) >= 2
        /\ FetchOk(hist[i].calls[1])
        /\ ~FetchOk(hist[i].calls[Len(hist[i].calls)])
        /\ hist[i].raised

(***************************************************************************)
(* SpecKeys: process_series on series of one dataset (the same dimensions  *)
(* in the same order) whose codes contain the characters the file name is  *)
(* joined with                                                             *)
(***************************************************************************)
KeySeriesKeys ==
    {<<KeyValue("FREQ", "A"), KeyValue("ITTER107", "IT")>>,
     <<KeyValue("FREQ", "Q"), KeyValue("ITTER107", "IT")>>,
     <<KeyValue("FREQ", "A_ITTER107-IT"), KeyValue("ITTER107", "IT")>>,
     <<KeyValue("FREQ", "A"), KeyValue("ITTER107", "IT_ITTER107-IT")>>}

KeySeriesObs == {ExampleSeries.obs, <<Obs(Y2018, "9.1")>>, <<ObsWithoutValue(Y2018)>>}

KeySeriesElems == {Series(key, obs) : key \in KeySeriesKeys, obs \in KeySeriesObs}

InitKeys ==
    /\ \E data \in {FailedData} \cup {Data(s) : s \in SeqUpTo(KeySeriesElems, MaxSeries)} :
          remote = [ExampleRemote EXCEPT !.data = data]
    /\ mappings = NoDocs
    /\ constraints = [NoDocs EXCEPT ![MainId] = ConstraintsDoc(MainId, ExampleDimensions)]
    /\ seriesFiles = EmptyDict
    /\ extractor = NoExtractor
    /\ clock = 1
    /\ hist = <<>>

SpecKeys == InitKeys /\ [][NextSeries]_vars

HasSurvivor(series) == \E k \in 1..Len(series.obs) : Survives(series.obs[k])

\* C15: after process_series every raw series with a surviving observation has
\* its record, series with the same (dimension, code) combination share a file,
\* and two series with different combinations are never written to the same
\* file.
C15_OneRecordPerCombination ==
    \A r \in ProcessRuns :
        /\ \A i \in 1..Len(remote.data.series) :
              HasSurvivor(remote.data.series[i]) => hist[r].results[i].status = "saved"
        /\ \A i, j \in 1..Len(remote.data.series) :
              (/\ hist[r].results[i].status = "saved"
               /\ hist[r].results[j].status = "saved")
                  => (KeyPairs(remote.data.series[i]) = KeyPairs(remote.data.series[j])
                         <=> hist[r].results[i].filename = hist[r].results[j].filename)

(***************************************************************************)
(* The observations of a record (checked under SpecSeries)                 *)
(***************************************************************************)
\* The raw observations of a series that have a time period and a value, in
\* document order, each with its value as a number when the text is numeric
RECURSIVE SurvivingObservations(_)
SurvivingObservations(obsElems) ==
    IF obsElems = <<>> THEN <<>>
    ELSE IF Survives(Head(obsElems))
    THEN <<[time_period |-> Head(obsElems).time,
            value |-> IF Head(obsElems).value \in DOMAIN FloatTable
                      THEN NumValue(FloatTable[Head(obsElems).value])
                      ELSE TextValue(Head(obsElems).value)]>>
         \o SurvivingObservations(Tail(obsElems))
    ELSE SurvivingObservations(Tail(obsElems))

Count(list, x) == Cardinality({k \in 1..Len(list) : list[k] = x})
SameBag(a, b) ==
    /\ Len(a) = Len(b)
    /\ \A k \in 1..Len(a) : Count(a, a[k]) = Count(b, a[k])

\* C16: for every raw series process_series went through, extract_series_key
\* builds a record whose observations are exactly the raw observations that have
\* a time period and a value, each once, the value a number when its text is
\* numeric and the text itself otherwise.
C16_ObservationsAreTheSurvivors ==
    \A r \in ProcessRuns : \A i \in 1..Len(remote.data.series) :
        LET built == extract_series_key(hist[r].dataset_id, extractor.constraints,
                                        remote.data.series[i], 0)
        IN /\ ~built.raised
           /\ hist[r].results[i].status # "error"
           /\ SameBag(built.series_data.observations,
                      SurvivingObservations(remote.data.series[i].obs))

(***************************************************************************)
(* Missing prerequisite documents (checked under SpecResolver)             *)
(***************************************************************************)
\* The step is a run of op for dataset_id
Ran(op, dataset_id) ==
    /\ Len(hist') = Len(hist) + 1
    /\ hist'[Len(hist')].op = op
    /\ hist'[Len(hist')].dataset_id = dataset_id

\* C17: build_constraints_overview for a dataset id without Mapping Document, and
\* the extractor's constructor for a dataset id without Constraints Document
\* (FileNotFoundError), fail before any remote call is issued and write nothing.
C17_MissingPrerequisiteFailsFirst ==
    [][\A dataset_id \in DatasetIds :
          /\ (Ran("build_constraints_overview", dataset_id) /\ ~mappings[dataset_id].exists)
                => /\ hist'[Len(hist')].raised
                   /\ hist'[Len(hist')].calls = <<>>
                   /\ UNCHANGED <<mappings, constraints, seriesFiles>>
          /\ (Ran("init", dataset_id) /\ ~constraints[dataset_id].exists)
                => /\ hist'[Len(hist')].raised
                   /\ hist'[Len(hist')].error = "FileNotFoundError"
                   /\ hist'[Len(hist')].calls = <<>>
                   /\ UNCHANGED <<mappings, constraints, seriesFiles>>]_vars

(***************************************************************************)
(* What a stage writes (checked under Spec)                                *)
(***************************************************************************)
\* A store differs from what it was at most in the document of one key
OnlyKey(before, after, key) ==
    \A k \in DOMAIN before : k # key => after[k] = before[k]

\* C18: every run, raising or not, writes documents of its own kind only:
\* build_constraints_overview leaves the Mapping Documents and the Series Records
\* as they were, the extractor (constructor and process_series) leaves the
\* Mapping Documents, the stored Constraints Documents and the one it loaded as
\* they were, and build_mapping leaves the Constraints Documents and the Series
\* Records as they were.
C18_StagesOnlyReadUpstream ==
    [][\A dataset_id \in DatasetIds :
          /\ Ran("build_mapping", dataset_id)
                => /\ UNCHANGED <<constraints, seriesFiles>>
                   /\ OnlyKey(mappings, mappings', dataset_id)
          /\ Ran("build_constraints_overview", dataset_id)
                => /\ UNCHANGED <<mappings, seriesFiles>>
                   /\ OnlyKey(constraints, constraints', dataset_id)
          /\ Ran("init", dataset_id)
                => /\ UNCHANGED <<mappings, constraints, seriesFiles>>
                   /\ extractor'.exists => extractor'.constraints = constraints[dataset_id]
          /\ Ran("process_series", dataset_id)
                => /\ UNCHANGED <<mappings, constraints>>
                   /\ extractor'.constraints = extractor.constraints]_vars

\* process_series persisted a record, and the documents it read are still what
\* the store held
C18_Witness ==
    \E i \in 1..Len(hist) :
        /\ hist[i].op = "process_series"
        /\ \E k \in 1..Len(hist[i].results) : hist[i].results[k].status = "saved"
        /\ mappings[hist[i].dataset_id].exists
        /\ extractor.constraints = constraints[hist[i].dataset_id]

(***************************************************************************)
(* All-or-nothing persistence of stages 1 and 2 (checked under Spec)       *)
(***************************************************************************)
\* Every codelist the structure definition refers to can be fetched
AllCodelistsFetched ==
    \A k \in 1..Len(remote.datastructure.dims) :
        LET dim == remote.datastructure.dims[k] IN
        (Truthy(dim.id) /\ dim.hasEnum) => CodelistFetched(dim.enum.id)

\* C19: build_mapping changes the stored Mapping Document only when the data
\* fetch, the structure fetch and every codelist fetch succeeded, and
\* build_constraints_overview changes the stored Constraints Document only when
\* the dataflow fetch, the constraint fetch and the mapping load succeeded; a run
\* that raises leaves the stored document, or its absence, as it was.
C19_PersistAllOrNothing ==
    [][\A dataset_id \in DatasetIds :
          /\ Ran("build_mapping", dataset_id)
                => /\ hist'[Len(hist')].raised => UNCHANGED mappings
                   /\ (~remote.data.ok \/ ~remote.datastructure.ok \/ ~AllCodelistsFetched)
                         => /\ hist'[Len(hist')].raised
                            /\ UNCHANGED mappings
                   /\ ~hist'[Len(hist')].raised
                         => /\ mappings'[dataset_id].exists
                            /\ mappings'[dataset_id].generated_at = clock
          /\ Ran("build_constraints_overview", dataset_id)
                => /\ hist'[Len(hist')].raised => UNCHANGED constraints
                   /\ (\/ ~remote.dataflow.ok \/ ~remote.availableconstraint.ok
                       \/ ~mappings[dataset_id].exists)
                         => /\ hist'[Len(hist')].raised
                            /\ UNCHANGED constraints
                   /\ ~hist'[Len(hist')].raised
                         => /\ constraints'[dataset_id].exists
                            /\ constraints'[dataset_id].generated_at = clock]_vars

\* build_mapping stopped at a codelist fetch, after two successful fetches, and
\* the Mapping Document of the earlier run is still stored
C19_Witness ==
    \E i \in 1..Len(hist) :
        /\ hist[i].op = "build_mapping"
        /\ hist[i].raised
        /\ Len(hist[i].calls) >= 3
        /\ mappings[hist[i].dataset_id] = StaleMapping(hist[i].dataset_id)

====
